---- MODULE Spec2Model ----
(***************************************************************************)
(* Model of diamond.handler.sensu.SensuHandler: a batching handler that    *)
(* queues encoded metrics in self.metrics and sends the whole queue over   *)
(* self.socket, with one reconnect-and-retry inside _send_data and a       *)
(* trimming step in the finally block of _send.                            *)
(*                                                                         *)
(* Each public call (the constructor, process, flush) is one action.  The  *)
(* outcome of every call into the socket library made on the way is an     *)
(* input of the action.  The private methods are operators on a record     *)
(*   [socket, metrics, events, raised, delivered, dropped]                 *)
(* where raised says that an exception is propagating out of the method    *)
(* and events is the list of the steps the call has executed so far.       *)
(* delivered is what the peer has received (the payloads of the sendall    *)
(* calls that succeeded, in order) and dropped is what the trimming step   *)
(* has removed from the backlog.                                           *)
(***************************************************************************)
EXTENDS Integers, Sequences, FiniteSets

VARIABLES
    config_port,                \* self.config['port'], as written in the configuration
    batch_size,                 \* self.batch_size
    max_backlog_multiplier,     \* self.max_backlog_multiplier
    trim_backlog_multiplier,    \* self.trim_backlog_multiplier
    socket,                     \* self.socket: "None" or "Connected"
    metrics,                    \* self.metrics: the backlog, oldest first
    phase,                      \* "new" (in __init__, before _connect), "ready", "failed"
    issued,                     \* number of metrics handed to process so far
    flushed,                    \* TRUE once flush() has been called by the producer
    op,                         \* the last public call: "none", "__init__", "process", "flush"
    before,                     \* self.metrics when the last call was entered
    events,                     \* the steps executed by the last call, in order
    raised,                     \* TRUE iff the last call left by an exception
    delivered,                  \* the entries the peer has received, in order of arrival
    dropped,                    \* the entries removed by the trimming step
    closes                      \* number of __del__ calls since the last other call

vars == <<config_port, batch_size, max_backlog_multiplier, trim_backlog_multiplier,
          socket, metrics, phase, issued, flushed, op, before, events, raised,
          delivered, dropped, closes>>

\* ------------------------------------------------------------------ bounds
MaxBatch == 3
MaxMultiplier == 3
MaxMetrics == 6
MaxCloses == 2

\* ------------------------------------------------------- inputs of a call
\* What socket.socket() / socket.connect() do in one run of _connect:
\*   "ok"       the connection is established,
\*   "refused"  socket.connect() raises (resolution, refusal, timeout),
\*   "nosocket" socket.socket() itself raises (no descriptor, no buffers).
ConnectOutcomes == {"ok", "refused", "nosocket"}

\* What sendall() does on a connected socket: TRUE = all data written.
SendOutcomes == BOOLEAN

\* The texts a configuration may give for the port.
PortTexts == {"2003", "sensu"}

\* The metric names the producer uses.
Names == {"cpu"}

\* ------------------------------------------------------------ pure helpers
Min(a, b) == IF a < b THEN a ELSE b

Max(a, b) == IF a > b THEN a ELSE b

\* Python's s[off:] for a list s and an integer off of either sign.
SliceFrom(s, off) ==
    LET start == IF off < 0 THEN Max(Len(s) + off, 0) ELSE Min(off, Len(s))
    IN  SubSeq(s, start + 1, Len(s))

\* int(text) of lines 31-39 raises ValueError unless text is a numeral.
IsNumeral(text) == text \in {"2003"}

\* The elements of a sequence.
Range(s) == {s[i] : i \in 1..Len(s)}

\* str(metric): "name value timestamp"; split() gives its three fields.
Split(metric) == <<metric.name, metric.value, metric.timestamp>>

\* json.dumps({'output': things[1], 'issued': things[2], 'name': things[0]}) + "\n"
Encode(metric) ==
    LET things == Split(metric)
    IN  [output |-> things[2], issued |-> things[3], name |-> things[1]]

\* A join that puts the newest line first.
JoinReversed(lines) == [i \in 1..Len(lines) |-> lines[Len(lines) + 1 - i]]

\* ''.join(self.metrics): the payload is the lines of the backlog, in order.
RECURSIVE Join(_)
Join(lines) ==
    IF lines = <<>> THEN <<>> ELSE <<Head(lines)>> \o Join(Tail(lines))

Log(st, ev) == [st EXCEPT !.events = Append(@, ev)]

\* ---------------------------------------------------------------- methods
\* A _close that closes the socket and forgets self.socket = None.
_close_keeps(st) == Log(st, [type |-> "close", socket |-> st.socket])

\* _close: socket.close() if there is a socket, then self.socket = None.  The
\* event records the socket it found: socket.close() ran unless it was "None".
_close(st) ==
    [Log(st, [type |-> "close", socket |-> st.socket]) EXCEPT !.socket = "None"]

\* _connect, called from `from`, with outcome oc.  socket.socket() (line 160)
\* is outside the try of lines 179-191 and reports failure by raising, never
\* by returning None: its exception leaves _connect with self.socket as it
\* was, and the branch of lines 161-166 is never taken.  Otherwise
\* self.socket is the new socket ("Created"); an exception of
\* socket.connect() is caught: _close, return.
_connect(st, from, oc) ==
    LET logged == Log(st, [type |-> "connect", from |-> from, outcome |-> oc])
    IN  CASE oc = "nosocket" -> [logged EXCEPT !.raised = TRUE]
          [] oc = "refused"  -> _close([logged EXCEPT !.socket = "Created"])
          [] OTHER           -> [logged EXCEPT !.socket = "Connected"]

\* One execution of self.socket.sendall(data); ok is what a connected socket
\* does with it.  With self.socket None the attribute lookup raises.
sendall(st, data, attempt, ok) ==
    LET sent == st.socket = "Connected" /\ ok
    IN  [Log(st, [type |-> "sendall", attempt |-> attempt, socket |-> st.socket,
                  data |-> data, ok |-> sent])
         EXCEPT !.raised = ~sent,
                !.delivered = IF sent THEN @ \o data ELSE @]

\* _send_data that raises after the retry whatever the retry did.
_send_data_reraise(st, data, s1, c1, s2) ==
    LET first == sendall(st, data, 1, s1)
    IN  IF ~first.raised THEN first
        ELSE LET closed == _close([first EXCEPT !.raised = FALSE])
                 again  == _connect(closed, "_send_data", c1)
             IN  IF again.raised THEN again
                 ELSE [sendall(again, data, 2, s2) EXCEPT !.raised = TRUE]

\* _send_data: send; on any exception close, reconnect, send again.
_send_data(st, data, s1, c1, s2) ==
    LET first == sendall(st, data, 1, s1)
    IN  IF ~first.raised THEN first
        ELSE LET closed == _close([first EXCEPT !.raised = FALSE])
                 again  == _connect(closed, "_send_data", c1)
             IN  IF again.raised THEN again
                 ELSE sendall(again, data, 2, s2)

\* A trimming step that runs only when the send has failed.
TrimOnFailureOnly(st) ==
    IF st.raised /\ Len(st.metrics) >= batch_size * max_backlog_multiplier
    THEN LET trim_offset == batch_size * trim_backlog_multiplier * (-1)
             kept == SliceFrom(st.metrics, trim_offset)
         IN  [Log(st, [type |-> "trim", from |-> st.metrics, to |-> kept])
              EXCEPT !.metrics = kept,
                     !.dropped = @ \cup (Range(st.metrics) \ Range(kept))]
    ELSE st

\* The finally block of _send.
Trim(st) ==
    IF Len(st.metrics) >= batch_size * max_backlog_multiplier
    THEN LET trim_offset == batch_size * trim_backlog_multiplier * (-1)
             kept == SliceFrom(st.metrics, trim_offset)
         IN  [Log(st, [type |-> "trim", from |-> st.metrics, to |-> kept])
              EXCEPT !.metrics = kept,
                     !.dropped = @ \cup (Range(st.metrics) \ Range(kept))]
    ELSE st

\* A try block that forgets self.metrics = [] after the send.
SendBodyKeeps(st, c0, s1, c1, s2) ==
    LET conn == IF st.socket = "None" THEN _connect(st, "_send", c0) ELSE st
    IN  IF conn.raised THEN conn
        ELSE IF conn.socket = "None" THEN conn
        ELSE _send_data(conn, Join(conn.metrics), s1, c1, s2)

\* A try block that empties the backlog whether or not the send succeeded.
SendBodyDrains(st, c0, s1, c1, s2) ==
    LET conn == IF st.socket = "None" THEN _connect(st, "_send", c0) ELSE st
    IN  IF conn.raised THEN conn
        ELSE IF conn.socket = "None" THEN conn
        ELSE [Log(_send_data(conn, Join(conn.metrics), s1, c1, s2), [type |-> "clear"])
              EXCEPT !.metrics = <<>>]

\* The inner try block of _send, up to the exception handler.
SendBody(st, c0, s1, c1, s2) ==
    LET conn == IF st.socket = "None" THEN _connect(st, "_send", c0) ELSE st
    IN  IF conn.raised THEN conn
        ELSE IF conn.socket = "None" THEN conn
        ELSE LET data == _send_data(conn, Join(conn.metrics), s1, c1, s2)
             IN  IF data.raised THEN data
                 ELSE [Log(data, [type |-> "clear"]) EXCEPT !.metrics = <<>>]

\* A _send whose exception handler re-raises without closing.
_send_noclose(st, c0, s1, c1, s2) ==
    LET entered == Log(st, [type |-> "_send", metrics |-> st.metrics,
                            socket |-> st.socket])
        body    == SendBody(entered, c0, s1, c1, s2)
    IN  Trim(body)

\* A _send that trims before it sends instead of in the finally block.
_send_trimfirst(st, c0, s1, c1, s2) ==
    LET entered == Log(st, [type |-> "_send", metrics |-> st.metrics,
                            socket |-> st.socket])
        body    == SendBody(Trim(entered), c0, s1, c1, s2)
    IN  IF body.raised THEN _close(body) ELSE body

\* A _send that returns at once when there is nothing to send.
_send_skipempty(st, c0, s1, c1, s2) ==
    IF st.metrics = <<>> THEN st
    ELSE LET entered == Log(st, [type |-> "_send", metrics |-> st.metrics,
                                 socket |-> st.socket])
             body    == SendBody(entered, c0, s1, c1, s2)
             handled == IF body.raised THEN _close(body) ELSE body
         IN  Trim(handled)

\* _send: try / except Exception: close and re-raise / finally: trim.
_send(st, c0, s1, c1, s2) ==
    LET entered == Log(st, [type |-> "_send", metrics |-> st.metrics,
                            socket |-> st.socket])
        body    == SendBody(entered, c0, s1, c1, s2)
        handled == IF body.raised THEN _close(body) ELSE body
    IN  Trim(handled)

\* The test of process taken one entry early, and one entry late.
BatchFullEarly(st) == Len(st.metrics) >= batch_size - 1

BatchFullLate(st) == Len(st.metrics) > batch_size

\* The test of process: len(self.metrics) >= self.batch_size.
BatchFull(st) == Len(st.metrics) >= batch_size

\* The handler as a record, at the entry of a call.
Self ==
    [socket |-> socket, metrics |-> metrics, events |-> <<>>, raised |-> FALSE,
     delivered |-> delivered, dropped |-> dropped]

\* ---------------------------------------------------------------- actions
Configs == (0..MaxBatch) \X (0..MaxMultiplier) \X (0..MaxMultiplier)

Init ==
    /\ config_port \in PortTexts
    /\ \E cfg \in Configs :
          /\ batch_size = cfg[1]
          /\ max_backlog_multiplier = cfg[2]
          /\ trim_backlog_multiplier = cfg[3]
    /\ socket = "None"
    /\ metrics = <<>>
    /\ phase = "new"
    /\ issued = 0
    /\ flushed = FALSE
    /\ op = "none"
    /\ before = <<>>
    /\ events = <<>>
    /\ raised = FALSE
    /\ delivered = <<>>
    /\ dropped = {}
    /\ closes = 0

Return(name, st) ==
    /\ op' = name
    /\ before' = metrics
    /\ socket' = st.socket
    /\ metrics' = st.metrics
    /\ events' = st.events
    /\ raised' = st.raised
    /\ delivered' = st.delivered
    /\ dropped' = st.dropped

\* __init__: the options are converted with int() (a port that is not a
\* numeral raises at line 31), self.metrics = [], then self._connect().
\* Nothing compares the multipliers or the batch size with anything.
Construct(c0) ==
    /\ phase = "new"
    /\ LET st == IF IsNumeral(config_port)
                 THEN _connect(Self, "__init__", c0)
                 ELSE [Self EXCEPT !.raised = TRUE]
       IN  /\ Return("__init__", st)
           /\ phase' = IF st.raised THEN "failed" ELSE "ready"
    /\ closes' = 0
    /\ UNCHANGED <<config_port, batch_size, max_backlog_multiplier,
                   trim_backlog_multiplier, issued, flushed>>

\* process(metric): append the encoded metric, send when the batch is full.
process(metric, c0, s1, c1, s2) ==
    /\ phase = "ready"
    /\ issued < MaxMetrics
    /\ LET appended == [Self EXCEPT !.metrics = Append(@, Encode(metric))]
           st == IF BatchFull(appended)
                 THEN _send(appended, c0, s1, c1, s2)
                 ELSE appended
       IN  Return("process", st)
    /\ issued' = issued + 1
    /\ closes' = 0
    /\ UNCHANGED <<config_port, batch_size, max_backlog_multiplier,
                   trim_backlog_multiplier, phase, flushed>>

\* flush(): self._send().
flush(c0, s1, c1, s2) ==
    /\ phase = "ready"
    /\ Return("flush", _send(Self, c0, s1, c1, s2))
    /\ flushed' = TRUE
    /\ closes' = 0
    /\ UNCHANGED <<config_port, batch_size, max_backlog_multiplier,
                   trim_backlog_multiplier, phase, issued>>

\* __del__(): self._close().  It may run any number of times.
__del__ ==
    /\ phase = "ready"
    /\ closes < MaxCloses
    /\ Return("__del__", _close(Self))
    /\ closes' = closes + 1
    /\ UNCHANGED <<config_port, batch_size, max_backlog_multiplier,
                   trim_backlog_multiplier, phase, issued, flushed>>

\* The metric the producer hands over next: its timestamp is its ordinal.
NextMetrics == [name : Names, value : {0}, timestamp : {issued + 1}]

\* The outcomes that matter in a call: a connect that is not made (the socket
\* is there, or the first sendall succeeded) and a retransmit that is not
\* made on a connection have one outcome each.
FirstConnects == IF socket = "None" THEN ConnectOutcomes ELSE {"ok"}

Reconnects(s1) == IF s1 THEN {"ok"} ELSE ConnectOutcomes

Resends(s1, c1) == IF s1 \/ c1 # "ok" THEN {FALSE} ELSE SendOutcomes

Next ==
    \/ \E c0 \in ConnectOutcomes : Construct(c0)
    \/ \E m \in NextMetrics, c0 \in FirstConnects, s1 \in SendOutcomes :
          \E c1 \in Reconnects(s1) : \E s2 \in Resends(s1, c1) :
              process(m, c0, s1, c1, s2)
    \/ \E c0 \in FirstConnects, s1 \in SendOutcomes :
          \E c1 \in Reconnects(s1) : \E s2 \in Resends(s1, c1) :
              flush(c0, s1, c1, s2)
    \/ __del__

Spec == Init /\ [][Next]_vars

\* A flush in which the network works: every connect and sendall succeeds.
FlushOk == flush("ok", TRUE, "ok", TRUE)

\* Something is queued in a constructed handler.
Pending == phase = "ready" /\ metrics # <<>>

\* The producer keeps flushing and the network does not fail for ever: while
\* something is queued, a flush over a working network is not postponed for
\* ever.  This is weak fairness of Pending /\ FlushOk, which is enabled
\* exactly when Pending holds, with the enabling condition written out.
LiveSpec == Spec /\ ([]<>~Pending \/ []<><<FlushOk>>_vars)

\* ------------------------------------------------- vocabulary of the claims
\* The configuration invariant of the data model.
ValidConfig ==
    /\ batch_size >= 1
    /\ trim_backlog_multiplier >= 1
    /\ trim_backlog_multiplier < max_backlog_multiplier

\* The last call was made by the producer on a constructed handler.
ProducerCall == op \in {"process", "flush"}

Sends == SelectSeq(events, LAMBDA e : e.type = "_send")

Sendalls == SelectSeq(events, LAMBDA e : e.type = "sendall")

Attempts(n) == SelectSeq(events, LAMBDA e : e.type = "sendall" /\ e.attempt = n)

Connects == SelectSeq(events, LAMBDA e : e.type = "connect")

ConnectsFrom(f) == SelectSeq(events, LAMBDA e : e.type = "connect" /\ e.from = f)

Closes == SelectSeq(events, LAMBDA e : e.type = "close")

Trims == SelectSeq(events, LAMBDA e : e.type = "trim")

\* The backlog when the flush of the last call started.
AtSend == Sends[1].metrics

FirstFailed == Attempts(1) # <<>> /\ ~Attempts(1)[1].ok

FirstSucceeded == Attempts(1) # <<>> /\ Attempts(1)[1].ok

RetryFailed == Attempts(2) # <<>> /\ ~Attempts(2)[1].ok

RetrySucceeded == Attempts(2) # <<>> /\ Attempts(2)[1].ok

DoubleFailure == FirstFailed /\ RetryFailed

\* The backlog is what the flush started with, less what the trimming step removed.
KeptButTrim ==
    /\ Len(Trims) <= 1
    /\ IF Trims = <<>> THEN metrics = AtSend
       ELSE Trims[1].from = AtSend /\ metrics = Trims[1].to

\* to is the last k entries of from, in order.
LastK(from, to, k) ==
    /\ Len(to) = k
    /\ k <= Len(from)
    /\ \A j \in 1..k : to[j] = from[Len(from) - k + j]

\* ------------------------------------------------------------------ claims
\* C1: for a valid configuration, whenever a process or flush call has
\* returned or raised, the backlog holds at most batch_size *
\* max_backlog_multiplier entries.
C1_BoundedBacklog ==
    ValidConfig => Len(metrics) <= batch_size * max_backlog_multiplier

\* A call under an outage (no connection could be made) in which the trimming
\* step cut a backlog that had reached the ceiling.
C1_Witness ==
    /\ ValidConfig /\ ProducerCall
    /\ Trims # <<>>
    /\ Len(Trims[1].from) = batch_size * max_backlog_multiplier
    /\ Len(metrics) = batch_size * trim_backlog_multiplier
    /\ Sendalls = <<>>

\* C2: whenever the trimming step fires on a backlog of N >= batch_size *
\* max_backlog_multiplier entries, the backlog afterwards is exactly its last
\* k = batch_size * trim_backlog_multiplier entries, in order.
C2_TrimKeepsNewest ==
    \A i \in 1..Len(Trims) :
        Len(Trims[i].from) >= batch_size * max_backlog_multiplier
        => LastK(Trims[i].from, Trims[i].to, batch_size * trim_backlog_multiplier)

\* C3: a flush whose first transmit succeeds leaves the backlog empty, does
\* not raise and does not close the connection.
C3_SuccessfulFlush ==
    (ProducerCall /\ FirstSucceeded)
    => /\ metrics = <<>>
       /\ ~raised
       /\ socket = "Connected"
       /\ Closes = <<>>

C3_Witness ==
    /\ ValidConfig /\ ProducerCall /\ FirstSucceeded
    /\ Len(AtSend) >= 2
    /\ metrics = <<>>

\* C4: when the first transmit and the retransmit after the reconnect both
\* fail, the flush ends Disconnected, the failure reaches the caller, and the
\* backlog is the one the flush started with, less what the trimming removed.
C4_PersistentFailure ==
    (ProducerCall /\ DoubleFailure)
    => /\ socket = "None"
       /\ raised
       /\ KeptButTrim

\* The retransmit was made on a re-established connection and failed, with a
\* non-empty backlog that stayed queued.
C4_Witness ==
    /\ ValidConfig /\ ProducerCall /\ DoubleFailure
    /\ Attempts(2)[1].socket = "Connected"
    /\ metrics # <<>> /\ metrics = AtSend
    /\ raised

\* C5: first transmit fails, the reconnect succeeds, the retransmit succeeds:
\* exactly one reconnect and one retransmit were made, nothing is raised, the
\* handler is Connected and the backlog is empty.
C5_TransientFailure ==
    (ProducerCall /\ FirstFailed /\ RetrySucceeded)
    => /\ Len(ConnectsFrom("_send_data")) = 1
       /\ ConnectsFrom("_send_data")[1].outcome = "ok"
       /\ Len(Attempts(2)) = 1
       /\ Len(Sendalls) = 2
       /\ ~raised
       /\ socket = "Connected"
       /\ metrics = <<>>

C5_Witness ==
    /\ ValidConfig /\ ProducerCall /\ FirstFailed /\ RetrySucceeded
    /\ AtSend # <<>>
    /\ metrics = <<>>

\* C6: a failed connect attempt (at construction, at the start of a flush or
\* as the reconnect of _send_data; refused or no socket) leaves the handler
\* Disconnected and is not raised: a call in which no transmit failed and
\* whose connect attempt failed returns normally, and process has appended.
\* Stated for the valid configurations.
C6_ConnectErrorsAbsorbed ==
    (ValidConfig /\ \E i \in 1..Len(Connects) : Connects[i].outcome # "ok")
    => /\ socket = "None"
       /\ (Attempts(2) = <<>> => ~raised)
       /\ (op = "process" => metrics # <<>> /\ metrics[Len(metrics)].issued = issued)

\* C7: a process or flush call raises only when a transmit failed and the
\* retransmit after the reconnect failed too.  Stated for the valid
\* configurations.
C7_RaisesOnlyOnDoubleFailure ==
    (ValidConfig /\ ProducerCall /\ raised) => DoubleFailure

\* C8: from a fresh handler, n < batch_size process calls make no connect and
\* no transmit attempt, and leave n entries in the backlog.
C8_BelowThreshold ==
    (op = "process" /\ ~flushed /\ issued < batch_size)
    => /\ events = <<>>
       /\ ~raised
       /\ Len(metrics) = issued
       /\ Len(before) = issued - 1

C8_Witness ==
    /\ ValidConfig /\ op = "process" /\ ~flushed
    /\ issued = 2 /\ batch_size = 3
    /\ Len(metrics) = 2

\* C9 as stated: process triggers a flush exactly when its append takes the
\* backlog across the threshold (from below batch_size to batch_size), once.
\* Stated for the valid configurations.
ThresholdCrossing == Len(before) < batch_size /\ Len(before) + 1 >= batch_size

C9_OncePerCrossing ==
    (ValidConfig /\ op = "process") => Len(Sends) = (IF ThresholdCrossing THEN 1 ELSE 0)

\* C9 amended: process triggers exactly one flush when the backlog holds at
\* least batch_size entries after its append, whether or not it already did
\* before the append, and none otherwise.
C9_OncePerFullBatch ==
    op = "process" => Len(Sends) = (IF Len(before) + 1 >= batch_size THEN 1 ELSE 0)

\* A process call on a backlog that was already at the threshold (the flushes
\* before it failed) triggers a flush again.
C9_Witness ==
    /\ ValidConfig /\ op = "process" /\ batch_size >= 2
    /\ Len(before) >= batch_size
    /\ Len(Sends) = 1

\* C10: a flush that starts Disconnected and whose connect attempt fails
\* returns normally, makes no transmit attempt, stays Disconnected and leaves
\* the backlog as it was, less what the trimming step removed.  Stated for
\* the valid configurations.
C10_FlushWithoutConnection ==
    (/\ ValidConfig /\ ProducerCall
     /\ ConnectsFrom("_send") # <<>>
     /\ ConnectsFrom("_send")[1].outcome # "ok")
    => /\ ~raised
       /\ Sendalls = <<>>
       /\ socket = "None"
       /\ KeptButTrim

\* C11: a configuration that violates trim < max, multipliers >= 1 or
\* batch >= 1, or whose port is not a numeral, makes the constructor fail
\* before any connect attempt, so no handler is ever ready with it.
C11_ConfigErrorsFailFast ==
    (~ValidConfig \/ ~IsNumeral(config_port))
    => /\ phase # "ready"
       /\ Connects = <<>>

\* C12: close leaves the handler Disconnected, does not fail and does not
\* touch the backlog; a close that follows a close finds no socket to close.
C12_CloseIdempotent ==
    op = "__del__"
    => /\ socket = "None"
       /\ ~raised
       /\ metrics = before
       /\ Len(events) = 1 /\ events[1].type = "close"
       /\ (closes >= 2 => events[1].socket = "None")

\* The second of two closes in a row, the first of which closed a connection
\* that had a backlog queued behind it.
C12_Witness ==
    /\ ValidConfig /\ op = "__del__"
    /\ closes = 2
    /\ metrics # <<>>
    /\ socket = "None"

\* C13: every sendall attempt, the retransmit included, is made while the
\* handler is Connected.  Stated for the valid configurations.
C13_TransmitRequiresConnected ==
    ValidConfig => \A i \in 1..Len(Sendalls) : Sendalls[i].socket = "Connected"

\* C14: a failed first transmit is followed by exactly one reconnect attempt
\* and exactly one retransmit attempt, and a flush makes at most two transmit
\* and two connect attempts.  Stated for the valid configurations.
C14_BoundedRetry ==
    (ValidConfig /\ ProducerCall)
    => /\ Len(Sendalls) <= 2
       /\ Len(Connects) <= 2
       /\ FirstFailed => /\ Len(ConnectsFrom("_send_data")) = 1
                         /\ Len(Attempts(2)) = 1

\* The backlog as the finally block of the last flush found it.
BeforeTrim ==
    IF \E i \in 1..Len(events) : events[i].type = "clear" THEN <<>> ELSE AtSend

\* C15: in every branch of a flush (sent, no connection, failure raised) the
\* trim test is the last step: it is applied to the backlog as the branch
\* left it, the trimming is the last thing the call does, and the caller
\* finds the trimmed backlog, also when the call raises.
C15_TrimLast ==
    (ProducerCall /\ Sends # <<>>)
    => IF Len(BeforeTrim) >= batch_size * max_backlog_multiplier
       THEN /\ Len(Trims) = 1
            /\ events[Len(events)].type = "trim"
            /\ Trims[1].from = BeforeTrim
            /\ metrics = Trims[1].to
       ELSE Trims = <<>> /\ metrics = BeforeTrim

\* The failure branch: both transmits failed, the backlog was cut, the call raised.
C15_Witness ==
    /\ ValidConfig /\ ProducerCall /\ DoubleFailure /\ raised
    /\ Trims # <<>>
    /\ Len(metrics) < Len(AtSend)

\* C16: every transmit attempt of a flush carries the whole backlog of that
\* flush in insertion order, the retransmit the same payload as the first
\* attempt, and what the peer receives over the whole run is in the order in
\* which process accepted it.
C16_FifoPayload ==
    /\ \A i \in 1..Len(Sendalls) : Sendalls[i].data = AtSend
    /\ \A j \in 1..(Len(delivered) - 1) : delivered[j].issued < delivered[j + 1].issued

\* A batch of several entries delivered by the retransmit, after earlier deliveries.
C16_Witness ==
    /\ ValidConfig /\ ProducerCall /\ FirstFailed /\ RetrySucceeded
    /\ Len(AtSend) >= 2
    /\ Len(delivered) > Len(AtSend)

\* The entries process has accepted so far.
Accepted == {Encode(m) : m \in [name : Names, value : {0}, timestamp : 1..issued]}

\* C17: between calls every accepted entry is in exactly one of the backlog,
\* the received payloads and the trimmed entries, and in it once.
C17_Conservation ==
    LET queued == Range(metrics)
        received == Range(delivered)
    IN  /\ queued \cup received \cup dropped = Accepted
        /\ queued \cap received = {}
        /\ queued \cap dropped = {}
        /\ received \cap dropped = {}
        /\ Cardinality(queued) = Len(metrics)
        /\ Cardinality(received) = Len(delivered)

C17_Witness ==
    /\ ValidConfig
    /\ metrics # <<>> /\ delivered # <<>> /\ dropped # {}

\* C18: for a valid configuration the trimming step fires only on a backlog of
\* exactly batch_size * max_backlog_multiplier entries, removes exactly
\* batch_size * (max_backlog_multiplier - trim_backlog_multiplier) of them,
\* and never fires in a flush whose transmit succeeded.
C18_ExactTrim ==
    ValidConfig
    => \A i \in 1..Len(Trims) :
          /\ Len(Trims[i].from) = batch_size * max_backlog_multiplier
          /\ Len(Trims[i].from) - Len(Trims[i].to)
                = batch_size * (max_backlog_multiplier - trim_backlog_multiplier)
          /\ ~FirstSucceeded /\ ~RetrySucceeded

C18_Witness ==
    /\ ValidConfig /\ ProducerCall
    /\ batch_size >= 2 /\ max_backlog_multiplier - trim_backlog_multiplier >= 2
    /\ Trims # <<>>
    /\ Cardinality(dropped) >= 4

\* Every connect and every sendall of the last call succeeded.
AllSucceeded ==
    /\ \A i \in 1..Len(Connects) : Connects[i].outcome = "ok"
    /\ \A i \in 1..Len(Sendalls) : Sendalls[i].ok

\* A flush over a working network sends the whole backlog it found, leaves
\* the backlog empty and does not raise.
FlushRecovers ==
    (ProducerCall /\ Sends # <<>> /\ AllSucceeded)
    => /\ ~raised
       /\ metrics = <<>>
       /\ Len(Sendalls) = 1
       /\ Sendalls[1].data = AtSend
       /\ Len(delivered) >= Len(AtSend)
       /\ SubSeq(delivered, Len(delivered) - Len(AtSend) + 1, Len(delivered)) = AtSend

\* Nothing is queued: every accepted entry has been received by the peer or
\* was discarded by a trim.
Drained ==
    /\ metrics = <<>>
    /\ Range(delivered) \cup dropped = Accepted

\* C19: once the network works, the first flush (explicit or triggered by
\* process) transmits the whole remaining backlog and leaves it empty without
\* raising; so when the producer keeps flushing and the network does not
\* fail for ever, the backlog is empty again and again and every queued entry
\* is eventually received by the peer, unless a trim discarded it before.
C19_Recovery ==
    /\ []FlushRecovers
    /\ []<>(phase = "ready" => Drained)

\* The first successful flush after an outage that was long enough to trim.
C19_Witness ==
    /\ ValidConfig /\ ProducerCall /\ Sends # <<>> /\ AllSucceeded
    /\ dropped # {}
    /\ Len(AtSend) >= 2
    /\ metrics = <<>>

\* C20: an explicit flush of an empty backlog is a flush like any other: it
\* connects when the handler is Disconnected, and with a connection it sends
\* the empty payload, so it can fail and raise; in every outcome the backlog
\* is still empty and nothing is trimmed away (for a valid configuration the
\* trimming step does not even fire).
C20_EmptyFlush ==
    (op = "flush" /\ before = <<>>)
    => /\ Len(Sends) = 1
       /\ (Sends[1].socket = "None") <=> (ConnectsFrom("_send") # <<>>)
       /\ (\/ Sends[1].socket = "Connected"
           \/ ConnectsFrom("_send")[1].outcome = "ok")
          => /\ Attempts(1) # <<>>
             /\ \A i \in 1..Len(Sendalls) : Sendalls[i].data = <<>>
       /\ DoubleFailure => raised /\ socket = "None"
       /\ metrics = <<>>
       /\ \A i \in 1..Len(Trims) : Trims[i].from = <<>> /\ Trims[i].to = <<>>
       /\ ValidConfig => Trims = <<>>

\* An empty flush that failed twice and raised.
C20_Witness ==
    /\ ValidConfig /\ op = "flush" /\ before = <<>>
    /\ DoubleFailure /\ raised
    /\ Attempts(2)[1].socket = "Connected"
    /\ metrics = <<>>

TypeOK ==
    /\ socket \in {"None", "Connected"}
    /\ phase \in {"new", "ready", "failed"}
    /\ issued \in 0..MaxMetrics
    /\ Len(metrics) <= issued
    /\ closes \in 0..MaxCloses
====
